---- MODULE Spec2Model ----
(***************************************************************************)
(* Training orchestration of trains/tagger.py: the epoch loop of main()    *)
(* with its early-stop and learning-rate-decay checks, the improvement     *)
(* decision, the per-epoch checkpoint and the resume from a checkpoint.    *)
(*                                                                         *)
(* One process runs main().  It can be killed at any point, and its train  *)
(* or validate pass can raise; a later process is then started with the    *)
(* module-level `checkpoint` set to one of the two checkpoint files.       *)
(*                                                                         *)
(* Accuracies are small naturals (only their order matters to main()).     *)
(* Learning rates are integers in units of 1e-9, so that 1e-4 is 100000    *)
(* and five successive multiplications by 0.8 are exact.                   *)
(***************************************************************************)
EXTENDS Integers, FiniteSets, Sequences, TLC

\* ---------------------------------------------------------------- bounds

\* Validation accuracies are drawn from 0..MaxAcc.
MaxAcc == 2

\* The largest value of `epochs` a run is configured with.
MaxEpochs == 22

\* How many times a killed or failed process is followed by a process that
\* resumes from a checkpoint file.
MaxRestarts == 1

\* The largest number of batches of the training and of the validation
\* loader.
MaxBatches == 2

\* ------------------------------------------------------ program constants

\* tagger.py:35  epochs = 10
ShippedEpochs == 10

\* tagger.py:98  if epochs_since_improvement == 20: break
PatienceLimit == 20

\* tagger.py:39  adjust_lr_after_epoch = 4
adjust_lr_after_epoch == 4

\* tagger.py:42  encoder_lr = 1e-4, in units of 1e-9
encoder_lr == 100000

\* tagger.py:101  adjust_learning_rate(encoder_optimizer, 0.8): the factor,
\* in tenths
DecayTenths == 8

\* tagger.py:44  best_acc = 0.
InitialBestAcc == 0

\* tagger.py:45  print_freq = 100
print_freq == 100

AccValues == 0 .. MaxAcc

\* The value of a name that holds nothing yet: no checkpoint file, `acc`
\* before the first validate pass of a process.
None == [none |-> TRUE]

VARIABLES
    pc,                        \* where main() is: "loop", "train", "validate",
                               \* "decide", "save", "done", "stopped",
                               \* "failed", "killed"
    epochs,                    \* tagger.py:35 (module-level configuration)
    start_epoch,               \* tagger.py:33, :66
    epoch,                     \* the loop variable of tagger.py:94
    epochs_since_improvement,  \* tagger.py:37, :67, :119, :123
    best_acc,                  \* tagger.py:44, :68, :117
    acc,                       \* acc.avg of tagger.py:111
    is_best,                   \* tagger.py:116
    lr,                        \* the learning rate of encoder_optimizer
    latest,                    \* the checkpoint file of the "latest" slot
    best,                      \* the checkpoint file of the "BEST" slot
    restartsLeft,              \* restarts still allowed
    loaded,                    \* history: the checkpoint this process loaded,
                               \* until its first save
    entryLatest,               \* history: the latest slot when the current
                               \* loop iteration was entered
    entryBest,                 \* history: the best slot at that moment
    streakDecays,              \* history: decays applied by this process
                               \* since its last improvement
    phase,                     \* where train() or validate() is; "atomic"
                               \* where a pass is taken as one step
    i,                         \* the batch index of tagger.py:153, :218
    nTrain,                    \* len(train_loader)
    nVal,                      \* len(val_loader)
    mode,                      \* encoder.train() / encoder.eval()
    meters,                    \* the AverageMeters of the pass: the number
                               \* of updates of each
    emptyRead,                 \* history: an average was read from a meter
                               \* that had no update
    grads,                     \* the gradients held by the parameters: the
                               \* batches they come from, and whether clipped
    params,                    \* the number of optimizer steps applied
    ops                        \* history: the operations of the current batch

\* The state of one pass over a loader.
passVars == <<phase, i, nTrain, nVal, mode, meters, emptyRead, grads, params,
              ops>>

vars == <<pc, epochs, start_epoch, epoch, epochs_since_improvement, best_acc,
          acc, is_best, lr, latest, best, restartsLeft, loaded,
          entryLatest, entryBest, streakDecays, passVars>>

\* The training state of main() that a pass does not own.
mainData == <<epochs, start_epoch, epoch, epochs_since_improvement, best_acc,
              is_best, lr, latest, best, restartsLeft, loaded, entryLatest,
              entryBest, streakDecays>>

Running == {"loop", "train", "validate", "decide", "save"}

\* ------------------------------------------------------------- operators

\* A faulty variant of ShouldStop: the limit compared with > instead of ==.
ShouldStop_Greater(s) == s > PatienceLimit

\* tagger.py:98  epochs_since_improvement == 20
ShouldStop(s) == s = PatienceLimit

\* A faulty variant of ShouldDecay: the test epochs_since_improvement > 0 dropped.
ShouldDecay_NoPositive(s) == s % adjust_lr_after_epoch = 0

\* tagger.py:100  epochs_since_improvement > 0 and
\*                epochs_since_improvement % adjust_lr_after_epoch == 0
ShouldDecay(s) == s > 0 /\ s % adjust_lr_after_epoch = 0

\* utils.optimizer.adjust_learning_rate(optimizer, 0.8): every parameter
\* group's learning rate is multiplied by the factor.
adjust_learning_rate(rate) == (rate * DecayTenths) \div 10

\* A faulty variant of IsBest: >= instead of >.
IsBest_OrEqual(a, b) == a >= b

\* tagger.py:116  is_best = acc.avg > best_acc
IsBest(a, b) == a > b

\* tagger.py:117  max(acc.avg, best_acc)
Max(a, b) == IF a > b THEN a ELSE b

\* A faulty variant of NextSinceImprovement: no reset on an improvement.
NextSinceImprovement_NoReset(s, isBest) == IF ~isBest THEN s + 1 ELSE s

\* A faulty variant of NextSinceImprovement: the counter grows by 2.
NextSinceImprovement_ByTwo(s, isBest) == IF ~isBest THEN s + 2 ELSE 0

\* tagger.py:118-123  the counter after the improvement decision
NextSinceImprovement(s, isBest) == IF ~isBest THEN s + 1 ELSE 0

\* A faulty variant of CheckpointArgs: best_acc handed over in place of acc.
CheckpointArgs_BestAcc ==
    [epoch |-> epoch,
     epochs_since_improvement |-> epochs_since_improvement,
     accuracy |-> best_acc,
     lr |-> lr,
     bestWhenWritten |-> best_acc]

\* tagger.py:128-129  what main() hands to save_tagger_checkpoint: the epoch,
\* the counter, the optimizer and this epoch's accuracy.  bestWhenWritten is
\* history: best_acc of the writing process, which is not handed over.
CheckpointArgs ==
    [epoch |-> epoch,
     epochs_since_improvement |-> epochs_since_improvement,
     accuracy |-> acc,
     lr |-> lr,
     bestWhenWritten |-> best_acc]

\* utils.checkpoint.save_tagger_checkpoint: the latest file is always
\* written, the BEST file when is_best.
SavedLatest(state, isBest, old) == state
SavedBest(state, isBest, old) == IF isBest THEN state ELSE old

\* A faulty variant of ResumedStartEpoch: the + 1 dropped.
ResumedStartEpoch_Same(ck) == ck.epoch

\* A faulty variant of ResumedSinceImprovement: the counter restarted at 0.
ResumedSinceImprovement_Zero(ck) == 0

\* tagger.py:66-68  what main() takes from a loaded checkpoint
ResumedStartEpoch(ck) == ck.epoch + 1
ResumedSinceImprovement(ck) == ck.epochs_since_improvement
ResumedBestAcc(ck) == ck.accuracy

\* tagger.py:70-73  encoder_optimizer is read from the checkpoint and then
\* assigned a new Adam(lr=encoder_lr)
ResumedLr(ck) == encoder_lr

\* tagger.py:145-148, :208-210  the meters of train() and of validate()
TrainMeters == {"batch_time", "data_time", "losses", "accs"}
ValMeters == {"batch_time", "losses", "accs"}

\* utils.metric.AverageMeter(): no update yet
NewMeters(names) == [m \in names |-> 0]

\* utils.metric.AverageMeter.update(value): one more observation
Update(ms, names) ==
    [m \in DOMAIN ms |-> IF m \in names THEN ms[m] + 1 ELSE ms[m]]

\* An average is read from a meter of `names` that has no update.
ReadsEmpty(ms, names) == \E m \in names : ms[m] = 0

\* Gradients after zero_grad(), and of parameters never differentiated.
ZeroGrads == [from |-> {}, clipped |-> FALSE]

\* loss.backward() of batch b: its gradients are added to those held.
Backward(g, b) == [from |-> g.from \cup {b}, clipped |-> FALSE]

\* utils.optimizer.clip_gradient(optimizer, grad_clip): the gradients held
\* are clamped in place.
clip_gradient(g) == [g EXCEPT !.clipped = TRUE]

\* ------------------------------------------------------------------ Init

\* A process started without a checkpoint (tagger.py:33-46, :59-63), no
\* checkpoint file on disk.  `epochs` is the shipped 10 or MaxEpochs.
Init ==
    /\ pc = "loop"
    /\ epochs \in {ShippedEpochs, MaxEpochs}
    /\ start_epoch = 0
    /\ epoch = 0
    /\ epochs_since_improvement = 0
    /\ best_acc = InitialBestAcc
    /\ acc = None
    /\ is_best = FALSE
    /\ lr = encoder_lr
    /\ latest = None
    /\ best = None
    /\ restartsLeft = MaxRestarts
    /\ loaded = None
    /\ entryLatest = None
    /\ entryBest = None
    /\ streakDecays = 0
    /\ phase = "atomic"
    /\ i = 0
    /\ nTrain = 0
    /\ nVal = 0
    /\ mode = "train"
    /\ meters = NewMeters({})
    /\ emptyRead = FALSE
    /\ grads = ZeroGrads
    /\ params = 0
    /\ ops = << >>

\* --------------------------------------------------------------- actions

\* tagger.py:94  range(start_epoch, epochs) is exhausted: main() returns.
LoopExit ==
    /\ pc = "loop"
    /\ epoch >= epochs
    /\ pc' = "done"
    /\ UNCHANGED <<epochs, start_epoch, epoch, epochs_since_improvement,
                   best_acc, acc, is_best, lr, latest, best, restartsLeft,
                   loaded, entryLatest, entryBest>>
    /\ UNCHANGED streakDecays
    /\ UNCHANGED passVars

\* A faulty variant of EarlyStop: the decay check placed before the break.
EarlyStop_DecayFirst ==
    /\ pc = "loop"
    /\ epoch < epochs
    /\ ShouldStop(epochs_since_improvement)
    /\ lr' = IF ShouldDecay(epochs_since_improvement)
             THEN adjust_learning_rate(lr)
             ELSE lr
    /\ pc' = "stopped"
    /\ UNCHANGED <<epochs, start_epoch, epoch, epochs_since_improvement,
                   best_acc, acc, is_best, latest, best, restartsLeft,
                   loaded, entryLatest, entryBest>>
    /\ UNCHANGED streakDecays
    /\ UNCHANGED passVars

\* tagger.py:98-99  the early-stop check: break.
EarlyStop ==
    /\ pc = "loop"
    /\ epoch < epochs
    /\ ShouldStop(epochs_since_improvement)
    /\ pc' = "stopped"
    /\ UNCHANGED <<epochs, start_epoch, epoch, epochs_since_improvement,
                   best_acc, acc, is_best, lr, latest, best, restartsLeft,
                   loaded, entryLatest, entryBest>>
    /\ UNCHANGED streakDecays
    /\ UNCHANGED passVars

\* tagger.py:98-101  no break; the decay check; on to train().
EpochBegin ==
    /\ pc = "loop"
    /\ epoch < epochs
    /\ ~ShouldStop(epochs_since_improvement)
    /\ lr' = IF ShouldDecay(epochs_since_improvement)
             THEN adjust_learning_rate(lr)
             ELSE lr
    /\ pc' = "train"
    /\ UNCHANGED <<epochs, start_epoch, epoch, epochs_since_improvement,
                   best_acc, acc, is_best, latest, best, restartsLeft,
                   loaded, entryLatest, entryBest>>
    /\ streakDecays' = IF ShouldDecay(epochs_since_improvement)
                       THEN streakDecays + 1
                       ELSE streakDecays
    /\ UNCHANGED passVars

\* tagger.py:104-108  train() returns.
Train ==
    /\ pc = "train"
    /\ pc' = "validate"
    /\ UNCHANGED <<epochs, start_epoch, epoch, epochs_since_improvement,
                   best_acc, acc, is_best, lr, latest, best, restartsLeft,
                   loaded, entryLatest, entryBest>>
    /\ UNCHANGED streakDecays
    /\ UNCHANGED passVars

\* tagger.py:111-113  validate() returns the accuracy meter.
Validate ==
    /\ pc = "validate"
    /\ \E a \in AccValues : acc' = a
    /\ pc' = "decide"
    /\ UNCHANGED <<epochs, start_epoch, epoch, epochs_since_improvement,
                   best_acc, is_best, lr, latest, best, restartsLeft,
                   loaded, entryLatest, entryBest>>
    /\ UNCHANGED streakDecays
    /\ UNCHANGED passVars

\* tagger.py:116-123  the improvement decision.
Decide ==
    /\ pc = "decide"
    /\ is_best' = IsBest(acc, best_acc)
    /\ best_acc' = Max(acc, best_acc)
    /\ epochs_since_improvement' =
           NextSinceImprovement(epochs_since_improvement, is_best')
    /\ pc' = "save"
    /\ UNCHANGED <<epochs, start_epoch, epoch, acc, lr, latest, best,
                   restartsLeft, loaded, entryLatest, entryBest>>
    /\ streakDecays' = IF is_best' THEN 0 ELSE streakDecays
    /\ UNCHANGED passVars

\* A faulty variant of Save: the loop variable does not advance.
Save_NoAdvance ==
    /\ pc = "save"
    /\ latest' = SavedLatest(CheckpointArgs, is_best, latest)
    /\ best' = SavedBest(CheckpointArgs, is_best, best)
    /\ pc' = "loop"
    /\ loaded' = None
    /\ entryLatest' = latest'
    /\ entryBest' = best'
    /\ UNCHANGED <<epochs, start_epoch, epoch, epochs_since_improvement,
                   best_acc, acc, is_best, lr, restartsLeft>>
    /\ UNCHANGED streakDecays
    /\ UNCHANGED passVars

\* tagger.py:128-129 and the loop's next iteration (tagger.py:94).
Save ==
    /\ pc = "save"
    /\ latest' = SavedLatest(CheckpointArgs, is_best, latest)
    /\ best' = SavedBest(CheckpointArgs, is_best, best)
    /\ epoch' = epoch + 1
    /\ pc' = "loop"
    /\ loaded' = None
    /\ entryLatest' = latest'
    /\ entryBest' = best'
    /\ UNCHANGED <<epochs, start_epoch, epochs_since_improvement, best_acc,
                   acc, is_best, lr, restartsLeft>>
    /\ UNCHANGED streakDecays
    /\ UNCHANGED passVars

\* A faulty variant of Raise: a handler that saves the interrupted epoch before the
\* process ends.
Raise_SavesFirst ==
    /\ pc \in {"train", "validate"}
    /\ pc' = "failed"
    /\ latest' = CheckpointArgs
    /\ UNCHANGED <<epochs, start_epoch, epoch, epochs_since_improvement,
                   best_acc, acc, is_best, lr, best, restartsLeft,
                   loaded, entryLatest, entryBest>>
    /\ UNCHANGED streakDecays
    /\ UNCHANGED passVars

\* tagger.py:104-113  train() or validate() raises; main() has no handler,
\* so the exception ends the process.
Raise ==
    /\ pc \in {"train", "validate"}
    /\ pc' = "failed"
    /\ UNCHANGED <<epochs, start_epoch, epoch, epochs_since_improvement,
                   best_acc, acc, is_best, lr, latest, best, restartsLeft,
                   loaded, entryLatest, entryBest>>
    /\ UNCHANGED streakDecays
    /\ UNCHANGED passVars

\* The process is killed.
Kill ==
    /\ pc \in Running
    /\ pc' = "killed"
    /\ UNCHANGED <<epochs, start_epoch, epoch, epochs_since_improvement,
                   best_acc, acc, is_best, lr, latest, best, restartsLeft,
                   loaded, entryLatest, entryBest>>
    /\ UNCHANGED streakDecays
    /\ UNCHANGED passVars

\* tagger.py:33-46, :64-73  a new process with `checkpoint` naming the file
\* of one slot.
ResumeFrom(ck) ==
    /\ pc \in {"killed", "failed"}
    /\ restartsLeft > 0
    /\ ck # None
    /\ restartsLeft' = restartsLeft - 1
    /\ start_epoch' = ResumedStartEpoch(ck)
    /\ epoch' = start_epoch'
    /\ epochs_since_improvement' = ResumedSinceImprovement(ck)
    /\ best_acc' = ResumedBestAcc(ck)
    /\ lr' = ResumedLr(ck)
    /\ acc' = None
    /\ is_best' = FALSE
    /\ loaded' = ck
    /\ pc' = "loop"
    /\ entryLatest' = latest
    /\ entryBest' = best
    /\ UNCHANGED <<epochs, latest, best>>
    /\ streakDecays' = 0
    /\ UNCHANGED passVars

ResumeLatest == ResumeFrom(latest)

ResumeBest == ResumeFrom(best)

Next ==
    \/ LoopExit
    \/ EarlyStop
    \/ EpochBegin
    \/ Train
    \/ Validate
    \/ Decide
    \/ Save
    \/ Raise
    \/ Kill
    \/ ResumeLatest
    \/ ResumeBest

Spec == Init /\ [][Next]_vars

\* ------------------------------------------------- the passes, by batch

\* tagger.py:143-150  train() begins: encoder.train(), new meters.
TrainEnter ==
    /\ pc = "train"
    /\ phase = "t_enter"
    /\ mode' = "train"
    /\ meters' = NewMeters(TrainMeters)
    /\ i' = 0
    /\ ops' = << >>
    /\ phase' = "t_next"
    /\ UNCHANGED <<mainData, pc, acc, nTrain, nVal, emptyRead, grads, params>>

\* tagger.py:153-154  the loader yields batch i; data_time.update.
TrainNextBatch ==
    /\ pc = "train"
    /\ phase = "t_next"
    /\ i < nTrain
    /\ meters' = Update(meters, {"data_time"})
    /\ ops' = << >>
    /\ phase' = "t_forward"
    /\ UNCHANGED <<mainData, pc, acc, i, nTrain, nVal, mode, emptyRead,
                   grads, params>>

\* tagger.py:153  the loader is exhausted: train() returns to main(), which
\* calls validate() (tagger.py:111).
TrainReturn ==
    /\ pc = "train"
    /\ phase = "t_next"
    /\ i >= nTrain
    /\ pc' = "validate"
    /\ phase' = "v_enter"
    /\ UNCHANGED <<mainData, acc, i, nTrain, nVal, mode, meters, emptyRead,
                   grads, params, ops>>

\* tagger.py:157-161  scores = encoder(imgs)
TrainForward ==
    /\ pc = "train"
    /\ phase = "t_forward"
    /\ ops' = Append(ops, "forward")
    /\ phase' = "t_loss"
    /\ UNCHANGED <<mainData, pc, acc, i, nTrain, nVal, mode, meters,
                   emptyRead, grads, params>>

\* tagger.py:163  loss = criterion(scores, targets)
TrainLoss ==
    /\ pc = "train"
    /\ phase = "t_loss"
    /\ ops' = Append(ops, "loss")
    /\ phase' = "t_zero_grad"
    /\ UNCHANGED <<mainData, pc, acc, i, nTrain, nVal, mode, meters,
                   emptyRead, grads, params>>

\* A faulty variant of TrainZeroGrad: the gradients are not cleared.
TrainZeroGrad_Skipped ==
    /\ pc = "train"
    /\ phase = "t_zero_grad"
    /\ phase' = "t_backward"
    /\ UNCHANGED <<mainData, pc, acc, i, nTrain, nVal, mode, meters,
                   emptyRead, grads, params, ops>>

\* tagger.py:166  encoder_optimizer.zero_grad()
TrainZeroGrad ==
    /\ pc = "train"
    /\ phase = "t_zero_grad"
    /\ grads' = ZeroGrads
    /\ ops' = Append(ops, "zero_grad")
    /\ phase' = "t_backward"
    /\ UNCHANGED <<mainData, pc, acc, i, nTrain, nVal, mode, meters,
                   emptyRead, params>>

\* tagger.py:167  loss.backward()
TrainBackward ==
    /\ pc = "train"
    /\ phase = "t_backward"
    /\ grads' = Backward(grads, i)
    /\ ops' = Append(ops, "backward")
    /\ phase' = "t_clip"
    /\ UNCHANGED <<mainData, pc, acc, i, nTrain, nVal, mode, meters,
                   emptyRead, params>>

\* tagger.py:170  clip_gradient(encoder_optimizer, grad_clip)
TrainClip ==
    /\ pc = "train"
    /\ phase = "t_clip"
    /\ grads' = clip_gradient(grads)
    /\ ops' = Append(ops, "clip")
    /\ phase' = "t_step"
    /\ UNCHANGED <<mainData, pc, acc, i, nTrain, nVal, mode, meters,
                   emptyRead, params>>

\* tagger.py:173  encoder_optimizer.step(): the gradients held are applied.
TrainStep ==
    /\ pc = "train"
    /\ phase = "t_step"
    /\ params' = params + 1
    /\ ops' = Append(ops, "step")
    /\ phase' = "t_metrics"
    /\ UNCHANGED <<mainData, pc, acc, i, nTrain, nVal, mode, meters,
                   emptyRead, grads>>

\* tagger.py:176-181  losses, accs and batch_time are updated.
TrainMetrics ==
    /\ pc = "train"
    /\ phase = "t_metrics"
    /\ meters' = Update(meters, {"losses", "accs", "batch_time"})
    /\ phase' = "t_print"
    /\ UNCHANGED <<mainData, pc, acc, i, nTrain, nVal, mode, emptyRead,
                   grads, params, ops>>

\* tagger.py:184-192  every print_freq batches the averages of all four meters
\* are printed; then the next batch.
TrainPrint ==
    /\ pc = "train"
    /\ phase = "t_print"
    /\ emptyRead' = (\/ emptyRead
                     \/ (i % print_freq = 0 /\ ReadsEmpty(meters, TrainMeters)))
    /\ i' = i + 1
    /\ phase' = "t_next"
    /\ UNCHANGED <<mainData, pc, acc, nTrain, nVal, mode, meters, grads,
                   params, ops>>

\* tagger.py:206-212  validate() begins: encoder.eval(), new meters.
ValEnter ==
    /\ pc = "validate"
    /\ phase = "v_enter"
    /\ mode' = "eval"
    /\ meters' = NewMeters(ValMeters)
    /\ i' = 0
    /\ ops' = << >>
    /\ phase' = "v_next"
    /\ UNCHANGED <<mainData, pc, acc, nTrain, nVal, emptyRead, grads, params>>

\* tagger.py:218-222  the loader yields batch i.
ValNextBatch ==
    /\ pc = "validate"
    /\ phase = "v_next"
    /\ i < nVal
    /\ ops' = << >>
    /\ phase' = "v_forward"
    /\ UNCHANGED <<mainData, pc, acc, i, nTrain, nVal, mode, meters,
                   emptyRead, grads, params>>

\* tagger.py:225  scores = encoder(imgs), under torch.no_grad()
ValForward ==
    /\ pc = "validate"
    /\ phase = "v_forward"
    /\ ops' = Append(ops, "forward")
    /\ phase' = "v_loss"
    /\ UNCHANGED <<mainData, pc, acc, i, nTrain, nVal, mode, meters,
                   emptyRead, grads, params>>

\* A faulty variant of ValLoss: the loss is also differentiated.
ValLoss_Backward ==
    /\ pc = "validate"
    /\ phase = "v_loss"
    /\ grads' = Backward(grads, i)
    /\ ops' = Append(ops, "loss")
    /\ phase' = "v_metrics"
    /\ UNCHANGED <<mainData, pc, acc, i, nTrain, nVal, mode, meters,
                   emptyRead, params>>

\* tagger.py:228  loss = criterion(scores, targets)
ValLoss ==
    /\ pc = "validate"
    /\ phase = "v_loss"
    /\ ops' = Append(ops, "loss")
    /\ phase' = "v_metrics"
    /\ UNCHANGED <<mainData, pc, acc, i, nTrain, nVal, mode, meters,
                   emptyRead, grads, params>>

\* tagger.py:231-236  losses, accs and batch_time are updated.
ValMetrics ==
    /\ pc = "validate"
    /\ phase = "v_metrics"
    /\ meters' = Update(meters, {"losses", "accs", "batch_time"})
    /\ phase' = "v_print"
    /\ UNCHANGED <<mainData, pc, acc, i, nTrain, nVal, mode, emptyRead,
                   grads, params, ops>>

\* tagger.py:238-243  every print_freq batches the averages of the three meters
\* are printed; then the next batch.
ValPrint ==
    /\ pc = "validate"
    /\ phase = "v_print"
    /\ emptyRead' = (\/ emptyRead
                     \/ (i % print_freq = 0 /\ ReadsEmpty(meters, ValMeters)))
    /\ i' = i + 1
    /\ phase' = "v_next"
    /\ UNCHANGED <<mainData, pc, acc, nTrain, nVal, mode, meters, grads,
                   params, ops>>

\* tagger.py:245-248  the loader is exhausted: the averages of losses and accs
\* are printed.
ValSummary ==
    /\ pc = "validate"
    /\ phase = "v_next"
    /\ i >= nVal
    /\ emptyRead' = (emptyRead \/ ReadsEmpty(meters, {"losses", "accs"}))
    /\ phase' = "v_summary_done"
    /\ UNCHANGED <<mainData, pc, acc, i, nTrain, nVal, mode, meters, grads,
                   params, ops>>

\* tagger.py:250, :111  validate() returns accs; main() holds it as acc, whose
\* average is some accuracy.
ValReturn ==
    /\ pc = "validate"
    /\ phase = "v_summary_done"
    /\ pc' = "decide"
    /\ acc' \in AccValues
    /\ phase' = "returned"
    /\ UNCHANGED <<mainData, i, nTrain, nVal, mode, meters, emptyRead, grads,
                   params, ops>>

\* train() and validate() of one epoch step by step, up to the improvement
\* decision of main() that reads the returned meter (tagger.py:116).
PassNext ==
    \/ TrainEnter
    \/ TrainNextBatch
    \/ TrainForward
    \/ TrainLoss
    \/ TrainZeroGrad
    \/ TrainBackward
    \/ TrainClip
    \/ TrainStep
    \/ TrainMetrics
    \/ TrainPrint
    \/ TrainReturn
    \/ ValEnter
    \/ ValNextBatch
    \/ ValForward
    \/ ValLoss
    \/ ValMetrics
    \/ ValPrint
    \/ ValSummary
    \/ ValReturn
    \/ Decide

\* main() of a process started without a checkpoint calls train() for epoch
\* 0 (tagger.py:104); the loaders hold 0 .. MaxBatches batches.
PassInit ==
    /\ pc = "train"
    /\ epochs = ShippedEpochs
    /\ start_epoch = 0
    /\ epoch = 0
    /\ epochs_since_improvement = 0
    /\ best_acc = InitialBestAcc
    /\ acc = None
    /\ is_best = FALSE
    /\ lr = encoder_lr
    /\ latest = None
    /\ best = None
    /\ restartsLeft = MaxRestarts
    /\ loaded = None
    /\ entryLatest = None
    /\ entryBest = None
    /\ streakDecays = 0
    /\ phase = "t_enter"
    /\ i = 0
    /\ nTrain \in 0 .. MaxBatches
    /\ nVal \in 0 .. MaxBatches
    /\ mode = "train"
    /\ meters = NewMeters({})
    /\ emptyRead = FALSE
    /\ grads = ZeroGrads
    /\ params = 0
    /\ ops = << >>

PassSpec == PassInit /\ [][PassNext]_vars

\* ---------------------------------------------------------------- claims

\* The epoch of the last improvement of the lineage on disk: the BEST file is
\* written by improving epochs only.
LastImprovingEpoch == IF best = None THEN -1 ELSE best.epoch

\* C1  Early stopping.  No train pass, validate pass or improvement decision
\* runs while the counter is at the patience limit; a run that stopped early
\* has its counter at the limit, has trained exactly PatienceLimit epochs
\* after the last improving epoch (the last of them is the one in the latest
\* file), and takes no further step.
C1_EarlyStopping ==
    /\ pc \in {"train", "validate", "decide"}
           => epochs_since_improvement < PatienceLimit
    /\ pc = "stopped" =>
           /\ epochs_since_improvement = PatienceLimit
           /\ epoch < epochs
           /\ epoch = LastImprovingEpoch + PatienceLimit + 1
           /\ latest # None /\ latest.epoch = epoch - 1
           /\ ~ENABLED Next

\* C1 witness: a run from scratch that improved, then stagnated for
\* PatienceLimit epochs, and stopped early.
C1_Witness ==
    /\ pc = "stopped"
    /\ start_epoch = 0
    /\ best # None
    /\ epoch = best.epoch + PatienceLimit + 1

\* The positive multiples of the decay period.
IsPositiveMultiple(s) ==
    \E k \in 1 .. PatienceLimit : s = k * adjust_lr_after_epoch

\* C2  Decay trigger.  The step that begins an epoch multiplies the learning
\* rate by 0.8 if the counter is a positive multiple of 4, and leaves it alone
\* otherwise (in particular at 0); no other step of a process changes it.
C2_DecayTrigger ==
    [][/\ (pc = "loop" /\ pc' = "train") =>
              IF IsPositiveMultiple(epochs_since_improvement)
              THEN 10 * lr' = 8 * lr
              ELSE lr' = lr
       /\ (pc \in Running /\ lr' # lr) => (pc = "loop" /\ pc' = "train")]_vars

\* C2 witness: an epoch begun with the counter at 8, after a second decay.
C2_Witness ==
    /\ pc = "train"
    /\ epochs_since_improvement = 2 * adjust_lr_after_epoch
    /\ 100 * lr = 64 * encoder_lr

\* C3  Counter invariant.  The improvement decision of an epoch with accuracy
\* a and previous best b: if a > b, then best_acc = a, the counter is 0 and
\* is_best holds; otherwise best_acc stays b, the counter grows by exactly 1
\* and is_best is false.  The epoch index grows by exactly 1 with each
\* completed epoch and changes in no other step of a process.
C3_CounterInvariant ==
    [][/\ (pc = "decide" /\ pc' = "save") =>
              IF acc > best_acc
              THEN /\ best_acc' = acc
                   /\ epochs_since_improvement' = 0
                   /\ is_best' = TRUE
              ELSE /\ best_acc' = best_acc
                   /\ epochs_since_improvement' = epochs_since_improvement + 1
                   /\ is_best' = FALSE
       /\ (pc = "save" /\ pc' = "loop") => epoch' = epoch + 1
       /\ (pc \in Running /\ epoch' # epoch) => (pc = "save" /\ pc' = "loop")
      ]_vars

\* C3 witness: a decision that did not improve on an earlier improvement and
\* took the counter to 3.
C3_Witness ==
    /\ pc = "save"
    /\ ~is_best
    /\ best_acc = 1
    /\ acc = 1
    /\ epochs_since_improvement = 3

\* C4  Resume continues the counter lineage.  A process resumed from a
\* checkpoint of epoch e with counter s runs its first iteration as epoch
\* e + 1 with the counter at s, up to the improvement decision; if that epoch
\* does not improve, the counter is s + 1 after the decision.
C4_ResumeLineage ==
    (loaded # None /\ pc \in Running) =>
        /\ start_epoch = loaded.epoch + 1
        /\ epoch = loaded.epoch + 1
        /\ pc \in {"loop", "train", "validate", "decide"}
               => epochs_since_improvement = loaded.epochs_since_improvement
        /\ (pc = "save" /\ ~is_best)
               => epochs_since_improvement
                      = loaded.epochs_since_improvement + 1

\* C4 witness: resumed from the checkpoint of epoch 5 with counter 2, epoch 6
\* did not improve and the counter is 3.
C4_Witness ==
    /\ loaded # None
    /\ loaded.epoch = 5
    /\ loaded.epochs_since_improvement = 2
    /\ pc = "save"
    /\ ~is_best
    /\ epoch = 6
    /\ epochs_since_improvement = 3

\* C5  Checkpoint round-trip of best_metric.  A process that has just loaded
\* a checkpoint holds, as best_acc, the best_acc of the process that wrote
\* the checkpoint.
C5_BestMetricRoundTrip ==
    (loaded # None /\ pc = "loop") => best_acc = loaded.bestWhenWritten

\* C6  Best-slot monotonicity.  Every overwrite of the BEST file stores an
\* accuracy greater than or equal to the one it replaces.
C6_BestSlotMonotone ==
    [][(best # None /\ best' # None) => best'.accuracy >= best.accuracy]_vars

\* C7  Resume restores the optimizer.  A process that has just loaded a
\* checkpoint trains with the learning rate the checkpoint recorded.
C7_OptimizerRestored ==
    (loaded # None /\ pc = "loop") => lr = loaded.lr

\* C8  Checkpoint per epoch and slot rule.  The save of an epoch follows its
\* improvement decision and writes, to the latest file, the epoch's index,
\* the updated counter and the epoch's accuracy; it writes the same to the
\* BEST file if is_best and leaves the BEST file alone otherwise.  No other
\* step writes a file, and at every loop entry after a completed epoch the
\* latest file is that epoch's.
C8_CheckpointPerEpoch ==
    /\ [][/\ (pc = "save" /\ pc' = "loop") =>
                 /\ latest'.epoch = epoch
                 /\ latest'.epochs_since_improvement
                        = epochs_since_improvement
                 /\ latest'.accuracy = acc
                 /\ is_best = (acc = best_acc /\ epochs_since_improvement = 0)
                 /\ best' = IF is_best THEN latest' ELSE best
          /\ (latest' # latest \/ best' # best)
                 => (pc = "save" /\ pc' = "loop")]_vars
    /\ []((pc = "loop" /\ epoch > start_epoch) =>
              (latest # None /\ latest.epoch = epoch - 1))

\* C8 witness: after a save that wrote the latest file and left an older
\* BEST file alone.
C8_Witness ==
    /\ pc = "loop"
    /\ latest # None
    /\ best # None
    /\ latest.epoch = epoch - 1
    /\ best.epoch < latest.epoch
    /\ latest.accuracy < best.accuracy

C10_FailureSemantics ==
    pc = "failed" =>
        /\ latest = entryLatest
        /\ best = entryBest
        /\ ~ENABLED (LoopExit \/ EarlyStop \/ EpochBegin \/ Train
                       \/ Validate \/ Decide \/ Save \/ Raise \/ Kill)

\* C10 witness: a failure in an epoch after completed ones.
C10_Witness ==
    /\ pc = "failed"
    /\ epoch > 0
    /\ latest # None
    /\ latest.epoch = epoch - 1

\* The steps main() itself takes.
ProcessStep ==
    LoopExit \/ EarlyStop \/ EpochBegin \/ Train \/ Validate \/ Decide \/ Save

\* What is left of the loop: the iterations not yet begun, and within the
\* current iteration the steps not yet taken.
StepsLeft ==
    5 * (epochs - epoch)
    + (CASE pc = "loop" -> 5
         [] pc = "train" -> 4
         [] pc = "validate" -> 3
         [] pc = "decide" -> 2
         [] pc = "save" -> 1
         [] OTHER -> 0)

\* C11  Termination.  Every step of a process that does not end it by a kill
\* or an exception takes it strictly closer to the end of the loop, and a
\* running process can always take a step; the epoch index stays within
\* start_epoch .. epochs, so the loop has at most epochs - start_epoch
\* iterations.  A process ends normally exactly with the index at epochs, and
\* early only by the early-stop check, before epochs; a process started
\* without a checkpoint that ends normally has saved the epochs 0 ..
\* epochs - 1.
C11_Termination ==
    /\ [][(pc \in Running /\ pc' \notin {"killed", "failed"})
              => StepsLeft' < StepsLeft]_vars
    /\ [](pc \in Running => ENABLED ProcessStep)
    /\ [](start_epoch <= epoch /\ epoch <= epochs)
    /\ [](pc = "done" => epoch = epochs)
    /\ [](pc = "stopped" =>
              (epoch < epochs /\ ShouldStop(epochs_since_improvement)))
    /\ []((pc = "done" /\ start_epoch = 0) =>
              (latest # None /\ latest.epoch = epochs - 1))

\* C11 witness: a run from scratch that was not stopped early and has trained
\* all MaxEpochs epochs.
C11_Witness ==
    /\ pc = "done"
    /\ start_epoch = 0
    /\ restartsLeft = MaxRestarts
    /\ epochs = MaxEpochs
    /\ epoch = MaxEpochs

\* C12  Fresh initialisation.  In a process started without a checkpoint the
\* first epoch counts as an improvement whatever its accuracy: after its
\* decision is_best holds and the counter is 0.
C12_FreshInitialisation ==
    (start_epoch = 0 /\ epoch = 0 /\ pc = "save") =>
        (is_best /\ epochs_since_improvement = 0)

\* C13  Accumulator read-after-update.  No average has been read from a
\* meter without an update (by a progress print or by the summary at the end
\* of validate()), and when main() is about to read acc.avg for the
\* improvement decision, the returned meter has had an update.
C13_ReadAfterUpdate ==
    /\ ~emptyRead
    /\ (pc = "decide" /\ phase = "returned") => meters["accs"] > 0

\* The operations of the current batch other than zero_grad.
OpsButZeroGrad == SelectSeq(ops, LAMBDA o : o # "zero_grad")

\* C14  Train-step ordering.  The gradients are zero when backward() of a
\* batch begins; once the optimizer step of batch i is taken, the batch's
\* operations were forward, loss, backward, clip, step in this order, the
\* gradients applied are the clipped gradients of batch i alone, and exactly
\* one step has been taken for each batch so far.
C14_TrainStepOrdering ==
    /\ (pc = "train" /\ phase = "t_backward") => grads = ZeroGrads
    /\ (pc = "train" /\ phase \in {"t_metrics", "t_print"}) =>
           /\ OpsButZeroGrad = <<"forward", "loss", "backward", "clip", "step">>
           /\ grads = [from |-> {i}, clipped |-> TRUE]
           /\ params = i + 1
    /\ (pc = "train" /\ phase = "t_next") => params = i
    /\ (pc = "train" /\ phase = "t_step") => params = i

\* C14 witness: the step of the second batch has been taken, after gradients
\* of the first batch were left in the parameters.
C14_Witness ==
    /\ pc = "train"
    /\ phase = "t_metrics"
    /\ i = 1
    /\ params = 2

\* C15  Validate pass is read-only.  No step of validate() changes the
\* parameters, the gradients or the learning rate, and none of the
\* operations of its batches is a zero_grad, backward, clip or step; no step
\* of train() or validate() changes epochs_since_improvement, best_acc or
\* the epoch index.
C15_ValidateReadOnly ==
    /\ [][/\ pc = "validate" => UNCHANGED <<params, grads, lr>>
          /\ pc \in {"train", "validate"} =>
                 UNCHANGED <<epochs_since_improvement, best_acc, epoch>>
         ]_vars
    /\ []((pc = "validate" /\ phase # "v_enter") =>
              \A k \in 1 .. Len(ops) : ops[k] \in {"forward", "loss"})

\* C15 witness: validate() has returned after MaxBatches batches, following a
\* train() that took optimizer steps.
C15_Witness ==
    /\ pc = "decide"
    /\ phase = "returned"
    /\ nVal = MaxBatches
    /\ i = MaxBatches
    /\ params = nTrain
    /\ nTrain > 0

\* C16  The comment of tagger.py:97.  The step that begins an epoch leaves
\* the learning rate alone while the counter is below 8.
C16_DecayAfterEight ==
    [][(pc = "loop" /\ pc' = "train" /\ epochs_since_improvement < 8)
           => lr' = lr]_vars

\* C17  Checkpoint consistency.  After the improvement decision is_best holds
\* exactly if the counter is 0, so a checkpoint is written to the BEST file
\* exactly if it records the counter 0: the BEST file records 0, a latest
\* file that records 0 is the BEST file, and a process that loaded the BEST
\* file begins with the counter at 0.
C17_CheckpointConsistency ==
    /\ pc = "save" => (is_best <=> epochs_since_improvement = 0)
    /\ best # None => best.epochs_since_improvement = 0
    /\ latest # None =>
           (latest.epochs_since_improvement = 0 <=> latest = best)
    /\ (loaded # None /\ loaded = best /\ pc \in Running)
           => (epochs_since_improvement = 0 \/ pc = "save")

\* C17 witness: a process resumed from the BEST file, while the latest file
\* records a counter above 0.
C17_Witness ==
    /\ pc = "loop"
    /\ loaded # None
    /\ loaded = best
    /\ latest.epochs_since_improvement > 0
    /\ epochs_since_improvement = 0

\* The positive multiples of the decay period up to s and below the limit.
MultiplesUpTo(s) ==
    {m \in 1 .. PatienceLimit - 1 : m % adjust_lr_after_epoch = 0 /\ m <= s}

\* C18  Early-stop precedes decay.  No step taken from the loop entry with
\* the counter at the limit changes the learning rate; a decay is applied
\* only with the counter at 4, 8, 12 or 16; and the decays a process has
\* applied since its last improvement are at most one for each of these
\* multiples that the counter has reached.
C18_StopPrecedesDecay ==
    /\ [][/\ (pc = "loop" /\ epochs_since_improvement = PatienceLimit)
                 => lr' = lr
          /\ (pc \in Running /\ lr' # lr)
                 => epochs_since_improvement \in {4, 8, 12, 16}]_vars
    /\ [](streakDecays
              <= Cardinality(MultiplesUpTo(epochs_since_improvement)))
    /\ [](pc = "stopped" => streakDecays <= 4)

\* C18 witness: a run stopped early after the four decays of one streak.
C18_Witness ==
    /\ pc = "stopped"
    /\ start_epoch = 0
    /\ streakDecays = 4
    /\ 10000 * lr = 4096 * encoder_lr

\* The counter less the epochs whose improvement decision this lineage has
\* taken.
CounterSlack ==
    epochs_since_improvement - epoch - (IF pc = "save" THEN 1 ELSE 0)

\* C19  Counter bound.  The counter is never negative; it is the loaded one
\* when a process starts, and no step of a process lets it grow faster than
\* the number of completed epochs, so it is at most the starting counter plus
\* the epochs completed.  In a process started without a checkpoint it is at
\* most the number of completed epochs; with the shipped epochs = 10 such a
\* process never stops early, ends normally only after epoch 9, and decays
\* only with the counter at 4 or 8.
C19_CounterBound ==
    /\ [](epochs_since_improvement >= 0)
    /\ []((loaded # None /\ pc = "loop") =>
              /\ epochs_since_improvement = loaded.epochs_since_improvement
              /\ epoch = start_epoch)
    /\ [][(pc \in Running /\ pc' \in Running)
              => CounterSlack' <= CounterSlack]_vars
    /\ []((start_epoch = 0 /\ pc \in Running \cup {"done", "stopped"})
              => CounterSlack <= 0)
    /\ []((start_epoch = 0 /\ epochs = ShippedEpochs) =>
              /\ pc # "stopped"
              /\ pc = "done" =>
                     (epoch = ShippedEpochs /\ latest.epoch = ShippedEpochs - 1))
    /\ [][(start_epoch = 0 /\ epochs = ShippedEpochs /\ pc \in Running
             /\ lr' # lr)
              => epochs_since_improvement \in {4, 8}]_vars

\* C19 witness: a run from scratch with the shipped constants that never
\* improved: all 10 epochs done, the counter at 10, decayed at 4 and at 8.
C19_Witness ==
    /\ pc = "done"
    /\ start_epoch = 0
    /\ restartsLeft = MaxRestarts
    /\ epochs = ShippedEpochs
    /\ epochs_since_improvement = ShippedEpochs
    /\ 100 * lr = 64 * encoder_lr

====
